---- MODULE Spec2Model ----
(***************************************************************************)
(* Model of janet-go (src/janet.go): the shared Janet VM, its dedicated    *)
(* worker goroutine, and the Execute / ParseToValue / Close entry points.  *)
(*                                                                         *)
(* Goroutines of the host program (Callers) call SharedVM, Close, Execute  *)
(* and ParseToValue concurrently.  Every access to the package variable    *)
(* _sharedVM and every channel operation is one step, so the interleavings *)
(* of unsynchronised callers are the behaviours of the model.              *)
(***************************************************************************)
EXTENDS Integers, Sequences, FiniteSets, TLC

\* ------------------------------------------------------------------ bounds
NumCallers == 2
MaxVM == 2
MaxReq == 2
\* Bytes a pipe holds before a write to it blocks (65536 on Linux, scaled
\* down; the outputs of all the requests of a run of the tests' source
\* texts together are shorter).
PipeCapacity == 256

Callers == 1..NumCallers
VMs == 1..MaxVM
NilVM == 0

\* --------------------------------------------------------------- constants
NoErr == "<nil>"
CtxErr == "context deadline exceeded"
ErrEnv == "failed to create janet environment"
ErrStdoutPipe == "failed to create stdout pipe"
ErrStderrPipe == "failed to create stderr pipe"
JANET_SIGNAL_OK == 0
JANET_SIGNAL_ERROR == 1

\* ------------------------------------------------------- Janet values
\* A Janet value is <<type, payload>>.
JNil == <<"nil", 0>>
JBool(b) == <<"boolean", b>>
JNum(n) == <<"number", n>>
JStr(s) == <<"string", s>>
JSym(s) == <<"symbol", s>>
JKey(s) == <<"keyword", s>>
JTuple(items) == <<"tuple", items>>
JArray(items) == <<"array", items>>
JFunc(name) == <<"function", name>>
\* A table or struct is its array of key/value slots (JanetKV); a slot with
\* a nil key is empty.  capacity: number of slots; length: number of entries.
JTable(data) == <<"table", [capacity |-> Len(data), data |-> data]>>
JStruct(data) ==
    <<"struct", [length |-> Cardinality({i \in 1..Len(data) :
                                           data[i][1][1] # "nil"}),
                 data |-> data]>>
EmptySlot == <<JNil, JNil>>

janet_struct_len(st) == st.length

janet_type(v) == v[1]

Digit(d) == CASE d = 0 -> "0" [] d = 1 -> "1" [] d = 2 -> "2" [] d = 3 -> "3"
              [] d = 4 -> "4" [] d = 5 -> "5" [] d = 6 -> "6" [] d = 7 -> "7"
              [] d = 8 -> "8" [] d = 9 -> "9"

RECURSIVE NatToString(_)
NatToString(n) == IF n < 10 THEN Digit(n)
                  ELSE NatToString(n \div 10) \o Digit(n % 10)

\* janet_to_string_b of the Janet runtime, for the values the model uses.
janet_to_string_b(v) ==
    CASE janet_type(v) = "number" ->
            IF v[2] < 0 THEN "-" \o NatToString(0 - v[2]) ELSE NatToString(v[2])
      [] janet_type(v) = "function" -> "<function " \o v[2] \o ">"
      [] janet_type(v) = "array" -> "<array 0x1>"
      [] janet_type(v) = "string" -> v[2]
      [] OTHER -> "<" \o janet_type(v) \o ">"

RECURSIVE janetValueToString(_)
RECURSIVE JoinElems(_, _)
JoinElems(items, i) ==
    IF i > Len(items) THEN ""
    ELSE janetValueToString(items[i])
           \o (IF i < Len(items) THEN " " ELSE "")
           \o JoinElems(items, i + 1)

janetValueToString(value) ==
    CASE janet_type(value) = "nil" -> "nil"
      [] janet_type(value) = "boolean" -> IF value[2] THEN "true" ELSE "false"
      [] janet_type(value) = "number" -> janet_to_string_b(value)
      [] janet_type(value) = "string" -> value[2]
      [] janet_type(value) = "symbol" -> value[2]
      [] janet_type(value) = "keyword" -> ":" \o value[2]
      [] janet_type(value) = "tuple" -> "(" \o JoinElems(value[2], 1) \o ")"
      [] OTHER -> janet_to_string_b(value)

\* A Go value (any) is <<kind, payload>>.
GoNil == <<"nil", 0>>

\* result[key] = val on a Go map (a function from keys to values).
MapPut(m, key, val) ==
    [k \in DOMAIN m \cup {key} |-> IF k = key THEN val ELSE m[k]]

RECURSIVE parseJanetValueToGo(_)
RECURSIVE ParseElems(_, _)
RECURSIVE ParseSlots(_, _, _, _)
\* The loops over the slots i..n of a table or struct: a slot whose key is
\* not nil is converted and stored in the map.
ParseSlots(data, i, n, result) ==
    IF i > n THEN result
    ELSE IF janet_type(data[i][1]) # "nil"
         THEN ParseSlots(data, i + 1, n,
                         MapPut(result, parseJanetValueToGo(data[i][1]),
                                parseJanetValueToGo(data[i][2])))
         ELSE ParseSlots(data, i + 1, n, result)

ParseElems(items, i) ==
    IF i > Len(items) THEN <<>>
    ELSE <<parseJanetValueToGo(items[i])>> \o ParseElems(items, i + 1)

\* Variant: a keyword converts to its bare name, without the ':'.
parseJanetValueToGoBareKeyword(value) ==
    CASE janet_type(value) = "nil" -> GoNil
      [] janet_type(value) = "boolean" -> <<"bool", value[2]>>
      [] janet_type(value) = "number" -> <<"float64", value[2]>>
      [] janet_type(value) = "string" -> <<"string", value[2]>>
      [] janet_type(value) = "symbol" -> <<"string", value[2]>>
      [] janet_type(value) = "keyword" -> <<"string", value[2]>>
      [] janet_type(value) \in {"tuple", "array"} ->
            <<"slice", ParseElems(value[2], 1)>>
      [] janet_type(value) = "table" ->
            <<"map", ParseSlots(value[2].data, 1, value[2].capacity, <<>>)>>
      [] janet_type(value) = "struct" ->
            <<"map", ParseSlots(value[2].data, 1, janet_struct_len(value[2]),
                                <<>>)>>
      [] OTHER -> <<"string", janetValueToString(value)>>

parseJanetValueToGo(value) ==
    CASE janet_type(value) = "nil" -> GoNil
      [] janet_type(value) = "boolean" -> <<"bool", value[2]>>
      [] janet_type(value) = "number" -> <<"float64", value[2]>>
      [] janet_type(value) = "string" -> <<"string", value[2]>>
      [] janet_type(value) = "symbol" -> <<"string", value[2]>>
      [] janet_type(value) = "keyword" -> <<"string", ":" \o value[2]>>
      [] janet_type(value) \in {"tuple", "array"} ->
            <<"slice", ParseElems(value[2], 1)>>
      [] janet_type(value) = "table" ->
            <<"map", ParseSlots(value[2].data, 1, value[2].capacity, <<>>)>>
      [] janet_type(value) = "struct" ->
            <<"map", ParseSlots(value[2].data, 1, janet_struct_len(value[2]),
                                <<>>)>>
      [] OTHER -> <<"string", janetValueToString(value)>>

\* ------------------------------------------------ the embedded interpreter
\* Source texts submitted by callers (the ones of vm_test.go).
ExprDefn == "(defn add [x y] (+ x y))"
ExprCall == "(add 1 2)"
ExprPrint == "(print \"hello to stdout\") (eprint \"hello to stderr\") \"hello\""
ExprData == "'(1 2 \"three\")"
ExprError == "(print \"partial\") (error \"intentional\")"
\* A source text that writes more bytes to stdout than a pipe holds, and
\* one whose evaluation never terminates.
ExprBig == "(prin (string/repeat \"x\" n))"
ExprLoop == "(while true)"
AllExprs == {ExprDefn, ExprCall, ExprPrint, ExprData, ExprError, ExprBig,
             ExprLoop}

\* The source texts the callers of Spec submit to Execute and to
\* ParseToValue.
ExecExprs == {ExprDefn, ExprPrint}
ParseExprs == {ExprData}

\* The core environment built by janet_core_env: no user definitions.
CoreEnv == {}

RECURSIVE Repeat(_, _)
Repeat(t, n) == IF n = 0 THEN "" ELSE t \o Repeat(t, n - 1)

\* What ExprBig writes to stdout: one byte more than a pipe holds.
BigOutput == Repeat("x", PipeCapacity + 1)

\* janet_dostring returns for every source text but the endless loop.
Terminates(code) == code # ExprLoop

\* janet_dostring(env, code): completion signal, result value, the bytes
\* written to stdout and stderr, and the environment afterwards.
janet_dostring(e, code) ==
    CASE code = ExprDefn ->
            [ret |-> JANET_SIGNAL_OK, result |-> JFunc("add"),
             out |-> "", err |-> "", env |-> e \cup {"add"}]
      [] code = ExprCall /\ "add" \in e ->
            [ret |-> JANET_SIGNAL_OK, result |-> JNum(3),
             out |-> "", err |-> "", env |-> e]
      [] code = ExprCall /\ "add" \notin e ->
            [ret |-> JANET_SIGNAL_ERROR, result |-> JStr("unknown symbol add"),
             out |-> "", err |-> "error: unknown symbol add\n", env |-> e]
      [] code = ExprPrint ->
            [ret |-> JANET_SIGNAL_OK, result |-> JStr("hello"),
             out |-> "hello to stdout\n", err |-> "hello to stderr\n", env |-> e]
      [] code = ExprData ->
            [ret |-> JANET_SIGNAL_OK,
             result |-> JTuple(<<JNum(1), JNum(2), JStr("three")>>),
             out |-> "", err |-> "", env |-> e]
      [] code = ExprError ->
            [ret |-> JANET_SIGNAL_ERROR, result |-> JStr("intentional"),
             out |-> "partial\n",
             err |-> "error: intentional\n  in thunk pc=1\n", env |-> e]
      [] code = ExprBig ->
            [ret |-> JANET_SIGNAL_OK, result |-> JNil,
             out |-> BigOutput, err |-> "", env |-> e]

\* ------------------------------------------------------------------- state
VARIABLES
    sharedVM,       \* _sharedVM: NilVM or the stored *VM
    nvm,            \* number of VM structs allocated so far (ids 1..nvm)
    wpc,            \* position of each VM's handler goroutine
    interp,         \* interpreter of each handler: "none", "live", "deinit"
    env,            \* Interpreter Environment of each handler
    shutdownChan,   \* vm.shutdownChan: TRUE once closed
    wg,             \* vm.wg counter
    initDone,       \* initDone channel: "empty", "closed" or "err"
    wreq,           \* request the handler is processing (NoReq: none)
    reqs,           \* requests created so far: expression, kind, vm
    responseChan,   \* per request: buffer (capacity 1) of its responseChan
    sendq,          \* requests offered by callers blocked in a send
    gpc,            \* position of each caller goroutine
    gvm,            \* VM the caller's current call works on
    greq,           \* request of the caller's current call
    gctx,           \* context of the current call: "live", "expired" (done
                    \* when the call was made) or "fired" (done since)
    handles,        \* non-nil *VM values that SharedVM has returned
    ret,            \* the return made by the last step (NoRet: none)
    withdrawn,      \* history: requests whose call returned in the submit phase
    abandoned,      \* history: requests whose caller gave up in the await
                    \* phase while the handler was still processing them
    inflight,       \* history: <<vm, request>> received by the vm's handler
                    \* and not yet answered
    panicked,       \* TRUE after a run-time panic (the process is gone)
    fd,             \* what the process's descriptors 1 (out) and 2 (err)
                    \* refer to: OrigDest, or r for the write end of the
                    \* pipe handleExecRequest created for request r
    originalFd,     \* per handler: originalStdoutFd / originalStderrFd, the
                    \* duplicates redirectStdout / redirectStderr returned
                    \* (ClosedFd: none held)
    pipebuf,        \* per request: bytes in its stdout and stderr pipe
    tty,            \* bytes that reached the original stdout and stderr
    janetResult,    \* per handler: ret and janetResult of handleExecRequest
    wrote,          \* history: per request, the bytes its evaluation wrote
    fds,            \* descriptors open in the process besides 0, 1 and 2:
                    \* pipe ends and saved duplicates, <<kind, stream, r>>
    codec           \* a Janet value handed to the Value Codec, its text
                    \* rendering and its Go value (done: conversions made)

vars == <<sharedVM, nvm, wpc, interp, env, shutdownChan, wg, initDone, wreq,
          reqs, responseChan, sendq, gpc, gvm, greq, gctx, handles, ret,
          withdrawn, abandoned, inflight, panicked, fd, originalFd, pipebuf,
          tty, janetResult, wrote, fds, codec>>

\* Everything but the Value Codec's own state.
programVars == <<sharedVM, nvm, wpc, interp, env, shutdownChan, wg, initDone,
                 wreq, reqs, responseChan, sendq, gpc, gvm, greq, gctx,
                 handles, ret, withdrawn, abandoned, inflight, panicked, fd,
                 originalFd, pipebuf, tty, janetResult, wrote, fds>>

captureVars == <<fd, originalFd, pipebuf, tty, janetResult, wrote, fds>>

history == <<withdrawn, abandoned, inflight>>

workerVars == <<wpc, interp, env, wg, initDone, wreq>>
callerVars == <<gpc, gvm, greq, gctx>>

NoReq == 0
NoCaller == 0

\* The destination descriptors 1 and 2 had when the process started.
OrigDest == 0
\* The value of originalStdoutFd / originalStderrFd when no duplicate is held.
ClosedFd == -1

NoText == [out |-> "", err |-> ""]
NoCodec == [value |-> <<"nil", 0>>, text |-> "", go |-> <<"nil", 0>>,
            done |-> {}]
NoResult == [ret |-> JANET_SIGNAL_OK, result |-> JNil]

\* Descriptors 1 and 2 as the process got them, no capture in progress.
CaptureInit ==
    /\ fd = [out |-> OrigDest, err |-> OrigDest]
    /\ originalFd = [v \in VMs |-> [out |-> ClosedFd, err |-> ClosedFd]]
    /\ pipebuf = [r \in 1..MaxReq |-> NoText]
    /\ tty = NoText
    /\ janetResult = [v \in VMs |-> NoResult]
    /\ wrote = [r \in 1..MaxReq |-> NoText]
    /\ fds = {}

\* A descriptor of the process: the read ("rd") or write ("wr") end of the
\* stdout / stderr pipe of request r, or the duplicate ("dup") of
\* descriptor 1 / 2 that the redirection for request r saved.
Desc(kind, s, r) == <<kind, s, r>>

\* C.pipe: the two descriptors of a new pipe.
Pipe(s, r) == {Desc("rd", s, r), Desc("wr", s, r)}

\* A write of text to what descriptor d refers to completes: the original
\* destination takes everything, a pipe only what fits in its buffer
\* (nothing reads the pipe while the evaluation runs).
WriteCompletes(d, buffered, text) ==
    d = OrigDest \/ Len(buffered) + Len(text) <= PipeCapacity

\* The evaluated source writes out to descriptor 1 and err to descriptor 2:
\* the bytes land where the descriptors refer to at that moment; a write
\* to a full pipe blocks.
Emit(out, err) ==
    /\ WriteCompletes(fd.out, IF fd.out = OrigDest THEN ""
                               ELSE pipebuf[fd.out].out, out)
    /\ WriteCompletes(fd.err, IF fd.err = OrigDest THEN ""
                               ELSE pipebuf[fd.err].err, err)
    /\ tty' = [out |-> IF fd.out = OrigDest THEN tty.out \o out ELSE tty.out,
               err |-> IF fd.err = OrigDest THEN tty.err \o err ELSE tty.err]
    /\ pipebuf' = [r \in 1..MaxReq |->
                     [out |-> IF fd.out = r THEN pipebuf[r].out \o out
                              ELSE pipebuf[r].out,
                      err |-> IF fd.err = r THEN pipebuf[r].err \o err
                              ELSE pipebuf[r].err]]

\* vmExecResponse / vmParseResponse; req is the request the handler built
\* the response for.
Response(r, evaluated, stdout, stderr, value, err) ==
    [req |-> r, evaluated |-> evaluated, stdout |-> stdout,
     stderr |-> stderr, value |-> value, err |-> err]

\* A return.  caller: the goroutine; op: the function called; how: the
\* return statement taken; vm: the *VM returned (SharedVM) or the receiver;
\* req: the call's own request; ctx: its context at the return; from: the
\* request whose Response was received.
Returned(g, op, how, v, r, ctx, from, evaluated, stdout, stderr, value, err) ==
    [caller |-> g, op |-> op, how |-> how, vm |-> v, req |-> r, ctx |-> ctx,
     from |-> from, evaluated |-> evaluated, stdout |-> stdout,
     stderr |-> stderr, value |-> value, err |-> err]

ReturnedVM(g, how, v, err) ==
    Returned(g, "SharedVM", how, v, NoReq, "live", NoReq, "", "", "", GoNil, err)

ReturnedClose(g, how, v) ==
    Returned(g, "Close", how, v, NoReq, "live", NoReq, "", "", "", GoNil, NoErr)

NoRet ==
    Returned(NoCaller, "none", "none", NilVM, NoReq, "live", NoReq, "", "", "",
             GoNil, NoErr)

\* Nothing constructed yet: _sharedVM is nil, no goroutine, no request.
ProgramInit ==
    /\ sharedVM = NilVM
    /\ nvm = 0
    /\ wpc = [v \in VMs |-> "none"]
    /\ interp = [v \in VMs |-> "none"]
    /\ env = [v \in VMs |-> {}]
    /\ shutdownChan = [v \in VMs |-> FALSE]
    /\ wg = [v \in VMs |-> 0]
    /\ initDone = [v \in VMs |-> "empty"]
    /\ wreq = [v \in VMs |-> NoReq]
    /\ reqs = <<>>
    /\ responseChan = <<>>
    /\ sendq = {}
    /\ gpc = [g \in Callers |-> "idle"]
    /\ gvm = [g \in Callers |-> NilVM]
    /\ greq = [g \in Callers |-> NoReq]
    /\ gctx = [g \in Callers |-> "live"]
    /\ handles = {}
    /\ ret = NoRet
    /\ withdrawn = {}
    /\ abandoned = {}
    /\ inflight = {}
    /\ panicked = FALSE
    /\ CaptureInit

Init == ProgramInit /\ codec = NoCodec

\* A request no goroutine refers to any more (garbage): its fields are
\* forgotten.
DeadReq == [expression |-> "", kind |-> "dead", vm |-> NilVM]

\* The caller goroutine g is between calls again.
BackToIdle(g) ==
    /\ gpc' = [gpc EXCEPT ![g] = "idle"]
    /\ gvm' = [gvm EXCEPT ![g] = NilVM]
    /\ greq' = [greq EXCEPT ![g] = NoReq]
    /\ gctx' = [gctx EXCEPT ![g] = "live"]

\* ---------------------------------------------------------------- SharedVM
\* if _sharedVM != nil { return _sharedVM, nil }
SharedVMExisting(g) ==
    /\ ~panicked
    /\ gpc[g] = "idle"
    /\ sharedVM # NilVM
    /\ ret' = ReturnedVM(g, "existing", sharedVM, NoErr)
    /\ handles' = handles \cup {sharedVM}
    /\ UNCHANGED <<codec, captureVars, sharedVM, nvm, workerVars, shutdownChan, reqs, responseChan,
                   sendq, callerVars, history, panicked>>

\* Variant: SharedVM creates an instance without testing _sharedVM.
SharedVMCreateAlways(g) ==
    /\ ~panicked
    /\ gpc[g] = "idle"
    /\ nvm < MaxVM
    /\ LET v == nvm + 1 IN
         /\ nvm' = v
         /\ wg' = [wg EXCEPT ![v] = 1]
         /\ wpc' = [wpc EXCEPT ![v] = "init"]
         /\ gpc' = [gpc EXCEPT ![g] = "svm_wait"]
         /\ gvm' = [gvm EXCEPT ![g] = v]
    /\ ret' = NoRet
    /\ UNCHANGED <<codec, captureVars, sharedVM, interp, env, shutdownChan, initDone, wreq, reqs,
                   responseChan, sendq, greq, gctx, handles, history,
                   panicked>>

\* Variant: SharedVM restarts the handler goroutine on the VM struct of the
\* last instance instead of making a new one.
SharedVMCreateReuse(g) ==
    /\ ~panicked
    /\ gpc[g] = "idle"
    /\ sharedVM = NilVM
    /\ nvm < MaxVM
    /\ LET v == IF nvm > 0 /\ wpc[nvm] = "exited" THEN nvm ELSE nvm + 1 IN
         /\ nvm' = v
         /\ wg' = [wg EXCEPT ![v] = 1]
         /\ wpc' = [wpc EXCEPT ![v] = "init"]
         /\ initDone' = [initDone EXCEPT ![v] = "empty"]
         /\ gpc' = [gpc EXCEPT ![g] = "svm_wait"]
         /\ gvm' = [gvm EXCEPT ![g] = v]
    /\ ret' = NoRet
    /\ UNCHANGED <<codec, captureVars, sharedVM, interp, env, shutdownChan, wreq, reqs,
                   responseChan, sendq, greq, gctx, handles, history,
                   panicked>>

\* _sharedVM is nil: make the channels and the VM, wg.Add(1), start the
\* handler goroutine, then block on initDone.
SharedVMCreate(g) ==
    /\ ~panicked
    /\ gpc[g] = "idle"
    /\ sharedVM = NilVM
    /\ nvm < MaxVM
    /\ LET v == nvm + 1 IN
         /\ nvm' = v
         /\ wg' = [wg EXCEPT ![v] = 1]
         /\ wpc' = [wpc EXCEPT ![v] = "init"]
         /\ gpc' = [gpc EXCEPT ![g] = "svm_wait"]
         /\ gvm' = [gvm EXCEPT ![g] = v]
    /\ ret' = NoRet
    /\ UNCHANGED <<codec, captureVars, sharedVM, interp, env, shutdownChan, initDone, wreq, reqs,
                   responseChan, sendq, greq, gctx, handles, history,
                   panicked>>

\* Handler goroutine: janet_init, janet_core_env.  The environment is built
\* (close(initDone), enter the loop) or not (initDone <- error, return).
WorkerInit(v) ==
    /\ ~panicked
    /\ wpc[v] = "init"
    /\ interp' = [interp EXCEPT ![v] = "live"]
    /\ \E ok \in BOOLEAN :
         IF ok
         THEN /\ env' = [env EXCEPT ![v] = CoreEnv]
              /\ initDone' = [initDone EXCEPT ![v] = "closed"]
              /\ wpc' = [wpc EXCEPT ![v] = "select"]
         ELSE /\ env' = env
              /\ initDone' = [initDone EXCEPT ![v] = "err"]
              /\ wpc' = [wpc EXCEPT ![v] = "failed"]
    /\ ret' = NoRet
    /\ UNCHANGED <<codec, captureVars, sharedVM, nvm, shutdownChan, wg, wreq, reqs, responseChan,
                   sendq, callerVars, handles, history, panicked>>

\* The deferred calls of the handler goroutine: janet_deinit, wg.Done.
WorkerDeferred(v) ==
    /\ interp' = [interp EXCEPT ![v] = "deinit"]
    /\ wg' = [wg EXCEPT ![v] = wg[v] - 1]
    /\ wpc' = [wpc EXCEPT ![v] = "exited"]

\* return after a failed janet_core_env.
WorkerInitFailedExit(v) ==
    /\ ~panicked
    /\ wpc[v] = "failed"
    /\ WorkerDeferred(v)
    /\ ret' = NoRet
    /\ UNCHANGED <<codec, captureVars, sharedVM, nvm, env, shutdownChan, initDone, wreq, reqs,
                   responseChan, sendq, callerVars, handles, history,
                   panicked>>

\* err = <-initDone with err == nil; _sharedVM = vm
SharedVMStore(g) ==
    /\ ~panicked
    /\ gpc[g] = "svm_wait"
    /\ initDone[gvm[g]] = "closed"
    /\ sharedVM' = gvm[g]
    /\ gpc' = [gpc EXCEPT ![g] = "svm_ret"]
    /\ ret' = NoRet
    /\ UNCHANGED <<codec, captureVars, nvm, workerVars, shutdownChan, reqs, responseChan, sendq,
                   gvm, greq, gctx, handles, history, panicked>>

\* return _sharedVM, nil  (reads the package variable again)
SharedVMReturn(g) ==
    /\ ~panicked
    /\ gpc[g] = "svm_ret"
    /\ ret' = ReturnedVM(g, "created", sharedVM, NoErr)
    /\ handles' = handles \cup ({sharedVM} \ {NilVM})
    /\ BackToIdle(g)
    /\ UNCHANGED <<codec, captureVars, sharedVM, nvm, workerVars, shutdownChan, reqs, responseChan,
                   sendq, history, panicked>>

\* Variant: the error is returned without vm.wg.Wait().
SharedVMInitFailedNoWait(g) ==
    /\ ~panicked
    /\ gpc[g] = "svm_wait"
    /\ initDone[gvm[g]] = "err"
    /\ ret' = ReturnedVM(g, "initerr", NilVM, ErrEnv)
    /\ BackToIdle(g)
    /\ UNCHANGED <<codec, captureVars, sharedVM, nvm, workerVars, shutdownChan, reqs,
                   responseChan, sendq, handles, history, panicked>>

\* err = <-initDone with err != nil; vm.wg.Wait(); return nil, err
SharedVMInitFailed(g) ==
    /\ ~panicked
    /\ gpc[g] = "svm_wait"
    /\ initDone[gvm[g]] = "err"
    /\ wg[gvm[g]] = 0
    /\ ret' = ReturnedVM(g, "initerr", NilVM, ErrEnv)
    /\ BackToIdle(g)
    /\ UNCHANGED <<codec, captureVars, sharedVM, nvm, workerVars, shutdownChan, reqs, responseChan,
                   sendq, handles, history, panicked>>

\* ------------------------------------------------------------------- Close
\* if _sharedVM != nil { close(vm.shutdownChan); ... }: closing a channel
\* that is already closed panics.  With _sharedVM nil Close returns at once.
CloseCall(g, v) ==
    /\ ~panicked
    /\ gpc[g] = "idle"
    /\ v \in handles
    /\ IF sharedVM # NilVM
       THEN IF shutdownChan[v]
            THEN /\ panicked' = TRUE
                 /\ ret' = NoRet
                 /\ UNCHANGED <<shutdownChan, gpc, gvm>>
            ELSE /\ shutdownChan' = [shutdownChan EXCEPT ![v] = TRUE]
                 /\ gpc' = [gpc EXCEPT ![g] = "close_wait"]
                 /\ gvm' = [gvm EXCEPT ![g] = v]
                 /\ ret' = NoRet
                 /\ UNCHANGED panicked
       ELSE /\ ret' = ReturnedClose(g, "noop", v)
            /\ UNCHANGED <<shutdownChan, gpc, gvm, panicked>>
    /\ UNCHANGED <<codec, captureVars, sharedVM, nvm, workerVars, reqs, responseChan, sendq, greq,
                   gctx, handles, history>>

\* Variant: Close does not wait for the handler goroutine.
CloseReturnNoWait(g) ==
    /\ ~panicked
    /\ gpc[g] = "close_wait"
    /\ sharedVM' = NilVM
    /\ ret' = ReturnedClose(g, "shutdown", gvm[g])
    /\ BackToIdle(g)
    /\ UNCHANGED <<codec, captureVars, nvm, workerVars, shutdownChan, reqs, responseChan, sendq,
                   handles, history, panicked>>

\* vm.wg.Wait(); _sharedVM = nil; return
CloseReturn(g) ==
    /\ ~panicked
    /\ gpc[g] = "close_wait"
    /\ wg[gvm[g]] = 0
    /\ sharedVM' = NilVM
    /\ ret' = ReturnedClose(g, "shutdown", gvm[g])
    /\ BackToIdle(g)
    /\ UNCHANGED <<codec, captureVars, nvm, workerVars, shutdownChan, reqs, responseChan, sendq,
                   handles, history, panicked>>

\* ------------------------------------------------- Execute / ParseToValue
\* The requests offered on vm.execChan / vm.parseChan by callers blocked in
\* the first select (the channels are unbuffered).
execChan(v) == {r \in sendq : reqs[r].vm = v /\ reqs[r].kind = "exec"}
parseChan(v) == {r \in sendq : reqs[r].vm = v /\ reqs[r].kind = "parse"}

\* responseChan := make(chan ..., 1); req := ...; enter the first select.
\* ctx: "live", or "expired" when the context passed in is already done.
Submit(g, v, kind, code, ctx) ==
    /\ ~panicked
    /\ gpc[g] = "idle"
    /\ v \in handles
    /\ Len(reqs) < MaxReq
    /\ LET r == Len(reqs) + 1 IN
         /\ reqs' = Append(reqs, [expression |-> code, kind |-> kind, vm |-> v])
         /\ responseChan' = Append(responseChan, <<>>)
         /\ sendq' = sendq \cup {r}
         /\ greq' = [greq EXCEPT ![g] = r]
    /\ gpc' = [gpc EXCEPT ![g] = "send"]
    /\ gvm' = [gvm EXCEPT ![g] = v]
    /\ gctx' = [gctx EXCEPT ![g] = ctx]
    /\ ret' = NoRet
    /\ UNCHANGED <<codec, captureVars, sharedVM, nvm, workerVars, shutdownChan, handles, history,
                   panicked>>

Execute(g, v, code, ctx) == Submit(g, v, "exec", code, ctx)

ParseToValue(g, v, code, ctx) == Submit(g, v, "parse", code, ctx)

OpOf(r) == IF reqs[r].kind = "exec" THEN "Execute" ELSE "ParseToValue"

\* The context of a call in progress becomes done (deadline or cancel).
CtxDone(g) ==
    /\ ~panicked
    /\ gpc[g] \in {"send", "await"}
    /\ gctx[g] = "live"
    /\ gctx' = [gctx EXCEPT ![g] = "fired"]
    /\ ret' = NoRet
    /\ UNCHANGED <<codec, captureVars, sharedVM, nvm, workerVars, shutdownChan, reqs, responseChan,
                   sendq, gpc, gvm, greq, handles, history, panicked>>

\* Variant: the return on ctx.Done() hands out what the handler has already
\* posted for the request.
CtxReturnedPartial(g, how) ==
    LET r == greq[g] IN
    IF responseChan[r] # <<>>
    THEN Returned(g, OpOf(r), how, gvm[g], r, gctx[g], NoReq,
                  Head(responseChan[r]).evaluated, Head(responseChan[r]).stdout,
                  Head(responseChan[r]).stderr, GoNil, CtxErr)
    ELSE Returned(g, OpOf(r), how, gvm[g], r, gctx[g], NoReq,
                  "", "", "", GoNil, CtxErr)

\* return "", "", "", ctx.Err()  /  return nil, ctx.Err()
CtxReturned(g, how) ==
    Returned(g, OpOf(greq[g]), how, gvm[g], greq[g], gctx[g], NoReq,
             "", "", "", GoNil, CtxErr)

\* Variant: the call returns on ctx.Done() but its send stays pending (as
\* if the send ran in a goroutine of its own).
SubmitCancelledSendStays(g) ==
    /\ ~panicked
    /\ gpc[g] = "send"
    /\ gctx[g] # "live"
    /\ withdrawn' = withdrawn \cup {greq[g]}
    /\ ret' = CtxReturned(g, "submit-ctx")
    /\ BackToIdle(g)
    /\ UNCHANGED <<codec, captureVars, sharedVM, nvm, workerVars, shutdownChan, reqs, responseChan,
                   sendq, handles, abandoned, inflight, panicked>>

\* First select, case <-ctx.Done(): the send is withdrawn.
SubmitCancelled(g) ==
    /\ ~panicked
    /\ gpc[g] = "send"
    /\ gctx[g] # "live"
    /\ sendq' = sendq \ {greq[g]}
    /\ withdrawn' = withdrawn \cup {greq[g]}
    /\ UNCHANGED <<abandoned, inflight>>
    /\ reqs' = [reqs EXCEPT ![greq[g]] = DeadReq]
    /\ ret' = CtxReturned(g, "submit-ctx")
    /\ BackToIdle(g)
    /\ UNCHANGED <<codec, captureVars, sharedVM, nvm, workerVars, shutdownChan, responseChan,
                   handles, panicked>>

\* Variant: giving up in the second select also stops the evaluation, the
\* handler goroutine drops the request and is back at its select.
AwaitCancelledInterrupts(g) ==
    /\ ~panicked
    /\ gpc[g] = "await"
    /\ gctx[g] # "live"
    /\ ret' = CtxReturned(g, "await-ctx")
    /\ reqs' = [reqs EXCEPT ![greq[g]] = DeadReq]
    /\ wpc' = [v \in VMs |-> IF wreq[v] = greq[g] THEN "select" ELSE wpc[v]]
    /\ wreq' = [v \in VMs |-> IF wreq[v] = greq[g] THEN NoReq ELSE wreq[v]]
    /\ inflight' = {p \in inflight : p[2] # greq[g]}
    /\ BackToIdle(g)
    /\ UNCHANGED <<codec, captureVars, sharedVM, nvm, interp, env, wg, initDone,
                   shutdownChan, responseChan, sendq, handles, withdrawn,
                   abandoned, panicked>>

\* Second select, case <-ctx.Done().
AwaitCancelled(g) ==
    /\ ~panicked
    /\ gpc[g] = "await"
    /\ gctx[g] # "live"
    /\ ret' = CtxReturned(g, "await-ctx")
    /\ reqs' = [reqs EXCEPT ![greq[g]] =
                  IF \E v \in VMs : wreq[v] = greq[g] THEN @ ELSE DeadReq]
    /\ abandoned' = IF \E v \in VMs : wreq[v] = greq[g]
                    THEN abandoned \cup {greq[g]} ELSE abandoned
    /\ BackToIdle(g)
    /\ UNCHANGED <<codec, captureVars, sharedVM, nvm, workerVars, shutdownChan, responseChan,
                   sendq, handles, withdrawn, inflight, panicked>>

\* Second select, case res := <-responseChan.
\* return res.evaluated, res.stdout, res.stderr, res.err / res.value, res.err
AwaitResponse(g) ==
    /\ ~panicked
    /\ gpc[g] = "await"
    /\ responseChan[greq[g]] # <<>>
    /\ LET r == greq[g]
           res == Head(responseChan[r])
       IN /\ ret' = Returned(g, OpOf(r), "response", gvm[g], r, gctx[g],
                             res.req, res.evaluated, res.stdout, res.stderr,
                             res.value, res.err)
          /\ responseChan' = [responseChan EXCEPT ![r] = Tail(@)]
          /\ reqs' = [reqs EXCEPT ![r] = DeadReq]
    /\ BackToIdle(g)
    /\ UNCHANGED <<codec, captureVars, sharedVM, nvm, workerVars, shutdownChan, sendq,
                   handles, history, panicked>>

\* ------------------------------------------------- the handler goroutine
\* A receive of the handler's select: the request leaves the channel, its
\* sender proceeds to the second select, the handler is called with it.
Receive(v, r, pos) ==
    /\ wpc' = [wpc EXCEPT ![v] = pos]
    /\ wreq' = [wreq EXCEPT ![v] = r]
    /\ sendq' = sendq \ {r}
    /\ gpc' = [g \in Callers |->
                 IF gpc[g] = "send" /\ greq[g] = r THEN "await" ELSE gpc[g]]
    /\ inflight' = inflight \cup {<<v, r>>}
    /\ ret' = NoRet
    /\ UNCHANGED <<codec, captureVars, sharedVM, nvm, interp, env, shutdownChan, wg, initDone,
                   reqs, responseChan, gvm, greq, gctx, handles, withdrawn,
                   abandoned, panicked>>

\* Variant: requests are received while an earlier one is still being
\* handled (as if each handler call ran in a goroutine of its own).
WorkerRecvExecWhileBusy(v) ==
    /\ ~panicked
    /\ wpc[v] \in {"select", "exec", "parse"}
    /\ \E r \in execChan(v) : Receive(v, r, "exec")

\* case req := <-execChan
WorkerRecvExec(v) ==
    /\ ~panicked
    /\ wpc[v] = "select"
    /\ \E r \in execChan(v) : Receive(v, r, "exec")

\* Variant: the request taken from parseChan is dropped, the goroutine goes
\* round its loop without calling the handler.
WorkerRecvParseDropsRequest(v) ==
    /\ ~panicked
    /\ wpc[v] = "select"
    /\ \E r \in parseChan(v) :
          /\ sendq' = sendq \ {r}
          /\ gpc' = [g \in Callers |->
                       IF gpc[g] = "send" /\ greq[g] = r THEN "await" ELSE gpc[g]]
    /\ ret' = NoRet
    /\ UNCHANGED <<codec, captureVars, sharedVM, nvm, workerVars, shutdownChan, reqs,
                   responseChan, gvm, greq, gctx, handles, history, panicked>>

\* case req := <-parseChan
WorkerRecvParse(v) ==
    /\ ~panicked
    /\ wpc[v] = "select"
    /\ \E r \in parseChan(v) : Receive(v, r, "parse")

\* case <-shutdownChan: return (then the deferred calls run)
WorkerShutdown(v) ==
    /\ ~panicked
    /\ wpc[v] = "select"
    /\ shutdownChan[v]
    /\ WorkerDeferred(v)
    /\ ret' = NoRet
    /\ UNCHANGED <<codec, captureVars, sharedVM, nvm, env, shutdownChan, initDone, wreq, reqs,
                   responseChan, sendq, callerVars, handles, history,
                   panicked>>

\* The Response handleExecRequest builds.  pipes: "ok", or which C.pipe
\* call failed ("stdout", "stderr").
ExecResponse(r, e, pipes) ==
    LET res == janet_dostring(e, reqs[r].expression) IN
    CASE pipes = "stdout" -> Response(r, "", "", "", GoNil, ErrStdoutPipe)
      [] pipes = "stderr" -> Response(r, "", "", "", GoNil, ErrStderrPipe)
      [] pipes = "ok" /\ res.ret # JANET_SIGNAL_OK ->
            Response(r, "", res.out, res.err, GoNil,
                     janet_to_string_b(res.result))
      [] pipes = "ok" /\ res.ret = JANET_SIGNAL_OK ->
            Response(r, janetValueToString(res.result), res.out, res.err,
                     GoNil, NoErr)

\* The Response handleParseRequest builds.
ParseResponse(r, e) ==
    LET res == janet_dostring(e, reqs[r].expression) IN
    IF res.ret # JANET_SIGNAL_OK
    THEN Response(r, "", "", "", GoNil, janet_to_string_b(res.result))
    ELSE Response(r, "", "", "", parseJanetValueToGo(res.result), NoErr)

\* Variant: the reply channel has no buffer, the send needs the caller to
\* be receiving in its second select.
PostUnbuffered(v, r, res) ==
    /\ \E g \in Callers : gpc[g] = "await" /\ greq[g] = r
    /\ responseChan' = [responseChan EXCEPT ![r] = Append(@, res)]
    /\ wpc' = [wpc EXCEPT ![v] = "select"]
    /\ wreq' = [wreq EXCEPT ![v] = NoReq]
    /\ reqs' = reqs
    /\ inflight' = inflight \ {<<v, r>>}

\* req.responseChan <- response, then back to the select of the loop.
Post(v, r, res) ==
    /\ Len(responseChan[r]) < 1
    /\ responseChan' = [responseChan EXCEPT ![r] = Append(@, res)]
    /\ wpc' = [wpc EXCEPT ![v] = "select"]
    /\ wreq' = [wreq EXCEPT ![v] = NoReq]
    /\ reqs' = [reqs EXCEPT ![r] =
                  IF \E g \in Callers : greq[g] = r THEN @ ELSE DeadReq]
    /\ inflight' = inflight \ {<<v, r>>}

\* handleExecRequest as one step of the channel protocol: a C.pipe call
\* fails, or the capture goes through (every dup succeeds, the output fits
\* the pipes) and the evaluation returns.  The steps of the capture itself
\* are taken apart further down.
handleExecRequest(v) ==
    /\ ~panicked
    /\ wpc[v] = "exec"
    /\ \E pipes \in {"ok", "stdout", "stderr"} :
         /\ pipes = "ok" => Terminates(reqs[wreq[v]].expression)
         /\ Post(v, wreq[v], ExecResponse(wreq[v], env[v], pipes))
         /\ env' = [env EXCEPT ![v] =
                      IF pipes = "ok"
                      THEN janet_dostring(env[v], reqs[wreq[v]].expression).env
                      ELSE @]
    /\ ret' = NoRet
    /\ UNCHANGED <<codec, captureVars, sharedVM, nvm, interp, shutdownChan, wg, initDone,
                   sendq, callerVars, handles, withdrawn, abandoned, panicked>>

handleParseRequest(v) ==
    /\ ~panicked
    /\ wpc[v] = "parse"
    /\ Terminates(reqs[wreq[v]].expression)
    /\ Post(v, wreq[v], ParseResponse(wreq[v], env[v]))
    /\ env' = [env EXCEPT ![v] =
                 janet_dostring(env[v], reqs[wreq[v]].expression).env]
    /\ Emit(janet_dostring(env[v], reqs[wreq[v]].expression).out,
            janet_dostring(env[v], reqs[wreq[v]].expression).err)
    /\ ret' = NoRet
    /\ UNCHANGED <<codec, fd, originalFd, janetResult, wrote, fds, sharedVM,
                   nvm, interp, shutdownChan, wg, initDone, sendq, callerVars,
                   handles, withdrawn, abandoned, panicked>>

\* ------------------------------------------------------------ specification
Next ==
    \/ \E g \in Callers : SharedVMExisting(g)
    \/ \E g \in Callers : SharedVMCreate(g)
    \/ \E g \in Callers : SharedVMStore(g)
    \/ \E g \in Callers : SharedVMReturn(g)
    \/ \E g \in Callers : SharedVMInitFailed(g)
    \/ \E g \in Callers, v \in VMs : CloseCall(g, v)
    \/ \E g \in Callers : CloseReturn(g)
    \/ \E g \in Callers, v \in VMs, code \in ExecExprs,
           ctx \in {"live", "expired"} : Execute(g, v, code, ctx)
    \/ \E g \in Callers, v \in VMs, code \in ParseExprs,
           ctx \in {"live", "expired"} : ParseToValue(g, v, code, ctx)
    \/ \E g \in Callers : CtxDone(g)
    \/ \E g \in Callers : SubmitCancelled(g)
    \/ \E g \in Callers : AwaitCancelled(g)
    \/ \E g \in Callers : AwaitResponse(g)
    \/ \E v \in VMs : WorkerInit(v)
    \/ \E v \in VMs : WorkerInitFailedExit(v)
    \/ \E v \in VMs : WorkerRecvExec(v)
    \/ \E v \in VMs : WorkerRecvParse(v)
    \/ \E v \in VMs : WorkerShutdown(v)
    \/ \E v \in VMs : handleExecRequest(v)
    \/ \E v \in VMs : handleParseRequest(v)

Spec == Init /\ [][Next]_vars

\* ------------------------------------ handleExecRequest, statement by
\* statement: the capture of descriptors 1 and 2 is process-wide state, so
\* the steps of the handler goroutines of different VMs interleave.

\* Variant: the error Response carries the error only, not the captured
\* output.
CapturedResponseErrOnly(r, jr, outBuf, errBuf) ==
    IF jr.ret # JANET_SIGNAL_OK
    THEN Response(r, "", "", "", GoNil, janet_to_string_b(jr.result))
    ELSE Response(r, janetValueToString(jr.result), outBuf, errBuf, GoNil,
                  NoErr)

\* The Response built from ret / janetResult and the drained buffers.
CapturedResponse(r, jr, outBuf, errBuf) ==
    IF jr.ret # JANET_SIGNAL_OK
    THEN Response(r, "", outBuf, errBuf, GoNil, janet_to_string_b(jr.result))
    ELSE Response(r, janetValueToString(jr.result), outBuf, errBuf, GoNil,
                  NoErr)

\* Variant: a failed C.pipe makes the handler return without posting a
\* Response.
ExecRedirectNoReply(v) ==
    /\ ~panicked
    /\ wpc[v] = "exec"
    /\ \E pipes \in {"ok", "stdout", "stderr"} :
         IF pipes = "ok"
         THEN \E dupOut, dupErr \in BOOLEAN :
              /\ originalFd' = [originalFd EXCEPT ![v] =
                    [out |-> IF dupOut THEN fd.out ELSE ClosedFd,
                     err |-> IF dupErr THEN fd.err ELSE ClosedFd]]
              /\ fd' = [out |-> wreq[v], err |-> wreq[v]]
              /\ fds' = (fds \cup Pipe("out", wreq[v])
                              \cup Pipe("err", wreq[v])
                              \cup (IF dupOut
                                    THEN {Desc("dup", "out", wreq[v])}
                                    ELSE {})
                              \cup (IF dupErr
                                    THEN {Desc("dup", "err", wreq[v])}
                                    ELSE {}))
                           \ {Desc("wr", "out", wreq[v]),
                              Desc("wr", "err", wreq[v])}
              /\ wpc' = [wpc EXCEPT ![v] = "redirected"]
              /\ UNCHANGED <<wreq, reqs, responseChan, inflight>>
         ELSE /\ wpc' = [wpc EXCEPT ![v] = "select"]
              /\ wreq' = [wreq EXCEPT ![v] = NoReq]
              /\ inflight' = inflight \ {<<v, wreq[v]>>}
              /\ UNCHANGED <<reqs, responseChan>>
              /\ fds' = IF pipes = "stderr"
                        THEN (fds \cup Pipe("out", wreq[v]))
                                 \ Pipe("out", wreq[v])
                        ELSE fds
              /\ UNCHANGED <<fd, originalFd>>
    /\ ret' = NoRet
    /\ UNCHANGED <<codec, sharedVM, nvm, interp, env, shutdownChan, wg, initDone,
                   sendq, callerVars, handles, withdrawn, abandoned, panicked,
                   pipebuf, tty, janetResult, wrote>>

\* Variant: stdout is redirected as soon as its pipe exists, so a failure
\* of the second C.pipe returns with descriptor 1 still on the closed pipe.
ExecRedirectEarly(v) ==
    /\ ~panicked
    /\ wpc[v] = "exec"
    /\ \E pipes \in {"ok", "stdout", "stderr"} :
         IF pipes = "ok"
         THEN \E dupOut, dupErr \in BOOLEAN :
              /\ originalFd' = [originalFd EXCEPT ![v] =
                    [out |-> IF dupOut THEN fd.out ELSE ClosedFd,
                     err |-> IF dupErr THEN fd.err ELSE ClosedFd]]
              /\ fd' = [out |-> wreq[v], err |-> wreq[v]]
              /\ fds' = (fds \cup Pipe("out", wreq[v])
                              \cup Pipe("err", wreq[v])
                              \cup (IF dupOut
                                    THEN {Desc("dup", "out", wreq[v])}
                                    ELSE {})
                              \cup (IF dupErr
                                    THEN {Desc("dup", "err", wreq[v])}
                                    ELSE {}))
                           \ {Desc("wr", "out", wreq[v]),
                              Desc("wr", "err", wreq[v])}
              /\ wpc' = [wpc EXCEPT ![v] = "redirected"]
              /\ UNCHANGED <<wreq, reqs, responseChan, inflight>>
         ELSE /\ Post(v, wreq[v], ExecResponse(wreq[v], env[v], pipes))
              /\ fds' = IF pipes = "stderr"
                        THEN (fds \cup Pipe("out", wreq[v]))
                                 \ Pipe("out", wreq[v])
                        ELSE fds
              /\ fd' = IF pipes = "stderr"
                       THEN [fd EXCEPT !.out = wreq[v]] ELSE fd
              /\ UNCHANGED originalFd
    /\ ret' = NoRet
    /\ UNCHANGED <<codec, sharedVM, nvm, interp, env, shutdownChan, wg, initDone,
                   sendq, callerVars, handles, withdrawn, abandoned, panicked,
                   pipebuf, tty, janetResult, wrote>>

\* Variant: a failure of the second C.pipe returns without closing the two
\* ends of the first pipe.
ExecRedirectLeaksFirstPipe(v) ==
    /\ ~panicked
    /\ wpc[v] = "exec"
    /\ \E pipes \in {"ok", "stdout", "stderr"} :
         IF pipes = "ok"
         THEN \E dupOut, dupErr \in BOOLEAN :
              /\ originalFd' = [originalFd EXCEPT ![v] =
                    [out |-> IF dupOut THEN fd.out ELSE ClosedFd,
                     err |-> IF dupErr THEN fd.err ELSE ClosedFd]]
              /\ fd' = [out |-> wreq[v], err |-> wreq[v]]
              /\ fds' = (fds \cup Pipe("out", wreq[v])
                              \cup Pipe("err", wreq[v])
                              \cup (IF dupOut
                                    THEN {Desc("dup", "out", wreq[v])}
                                    ELSE {})
                              \cup (IF dupErr
                                    THEN {Desc("dup", "err", wreq[v])}
                                    ELSE {}))
                           \ {Desc("wr", "out", wreq[v]),
                              Desc("wr", "err", wreq[v])}
              /\ wpc' = [wpc EXCEPT ![v] = "redirected"]
              /\ UNCHANGED <<wreq, reqs, responseChan, inflight>>
         ELSE /\ Post(v, wreq[v], ExecResponse(wreq[v], env[v], pipes))
              /\ fds' = IF pipes = "stderr"
                        THEN fds \cup Pipe("out", wreq[v])
                        ELSE fds
              /\ UNCHANGED <<fd, originalFd>>
    /\ ret' = NoRet
    /\ UNCHANGED <<codec, sharedVM, nvm, interp, env, shutdownChan, wg, initDone,
                   sendq, callerVars, handles, withdrawn, abandoned, panicked,
                   pipebuf, tty, janetResult, wrote>>

\* C.pipe twice, then redirectStdout / redirectStderr: dup the descriptor
\* (dup can fail and return -1), dup2 the pipe's write end onto it, close
\* the pipe's own write descriptor.  A failed C.pipe posts the error and
\* returns before any redirection; when the second C.pipe fails both ends
\* of the first pipe are closed first.
ExecRedirect(v) ==
    /\ ~panicked
    /\ wpc[v] = "exec"
    /\ \E pipes \in {"ok", "stdout", "stderr"} :
         IF pipes = "ok"
         THEN \E dupOut, dupErr \in BOOLEAN :
              /\ originalFd' = [originalFd EXCEPT ![v] =
                    [out |-> IF dupOut THEN fd.out ELSE ClosedFd,
                     err |-> IF dupErr THEN fd.err ELSE ClosedFd]]
              /\ fd' = [out |-> wreq[v], err |-> wreq[v]]
              /\ fds' = (fds \cup Pipe("out", wreq[v])
                              \cup Pipe("err", wreq[v])
                              \cup (IF dupOut
                                    THEN {Desc("dup", "out", wreq[v])}
                                    ELSE {})
                              \cup (IF dupErr
                                    THEN {Desc("dup", "err", wreq[v])}
                                    ELSE {}))
                           \ {Desc("wr", "out", wreq[v]),
                              Desc("wr", "err", wreq[v])}
              /\ wpc' = [wpc EXCEPT ![v] = "redirected"]
              /\ UNCHANGED <<wreq, reqs, responseChan, inflight>>
         ELSE /\ Post(v, wreq[v], ExecResponse(wreq[v], env[v], pipes))
              /\ fds' = IF pipes = "stderr"
                        THEN (fds \cup Pipe("out", wreq[v]))
                                 \ Pipe("out", wreq[v])
                        ELSE fds
              /\ UNCHANGED <<fd, originalFd>>
    /\ ret' = NoRet
    /\ UNCHANGED <<codec, sharedVM, nvm, interp, env, shutdownChan, wg, initDone,
                   sendq, callerVars, handles, withdrawn, abandoned, panicked,
                   pipebuf, tty, janetResult, wrote>>

\* Variant: every request is evaluated against a fresh core environment.
ExecDostringFreshEnv(v) ==
    /\ ~panicked
    /\ wpc[v] = "redirected"
    /\ Terminates(reqs[wreq[v]].expression)
    /\ LET res == janet_dostring(CoreEnv, reqs[wreq[v]].expression) IN
         /\ env' = env
         /\ Emit(res.out, res.err)
         /\ janetResult' = [janetResult EXCEPT ![v] =
                              [ret |-> res.ret, result |-> res.result]]
         /\ wrote' = [wrote EXCEPT ![wreq[v]] =
                        [out |-> res.out, err |-> res.err]]
    /\ wpc' = [wpc EXCEPT ![v] = "evaluated"]
    /\ ret' = NoRet
    /\ UNCHANGED <<codec, sharedVM, nvm, interp, shutdownChan, wg, initDone, wreq,
                   reqs, responseChan, sendq, callerVars, handles, history,
                   panicked, fd, originalFd, fds>>

\* ret = C.janet_dostring(env, cCode, nil, &janetResult)
ExecDostring(v) ==
    /\ ~panicked
    /\ wpc[v] = "redirected"
    /\ Terminates(reqs[wreq[v]].expression)
    /\ LET res == janet_dostring(env[v], reqs[wreq[v]].expression) IN
         /\ env' = [env EXCEPT ![v] = res.env]
         /\ Emit(res.out, res.err)
         /\ janetResult' = [janetResult EXCEPT ![v] =
                              [ret |-> res.ret, result |-> res.result]]
         /\ wrote' = [wrote EXCEPT ![wreq[v]] =
                        [out |-> res.out, err |-> res.err]]
    /\ wpc' = [wpc EXCEPT ![v] = "evaluated"]
    /\ ret' = NoRet
    /\ UNCHANGED <<codec, sharedVM, nvm, interp, shutdownChan, wg, initDone, wreq,
                   reqs, responseChan, sendq, callerVars, handles, history,
                   panicked, fd, originalFd, fds>>

\* restoreStdout / restoreStderr: dup2 the saved duplicate back and close
\* it, unless it is -1.
ExecRestore(v) ==
    /\ ~panicked
    /\ wpc[v] = "evaluated"
    /\ fd' = [out |-> IF originalFd[v].out # ClosedFd THEN originalFd[v].out
                      ELSE fd.out,
              err |-> IF originalFd[v].err # ClosedFd THEN originalFd[v].err
                      ELSE fd.err]
    /\ originalFd' = [originalFd EXCEPT
                        ![v] = [out |-> ClosedFd, err |-> ClosedFd]]
    /\ fds' = fds \ {Desc("dup", "out", wreq[v]), Desc("dup", "err", wreq[v])}
    /\ wpc' = [wpc EXCEPT ![v] = "restored"]
    /\ ret' = NoRet
    /\ UNCHANGED <<codec, sharedVM, nvm, interp, env, shutdownChan, wg, initDone,
                   wreq, reqs, responseChan, sendq, callerVars, handles,
                   history, panicked, pipebuf, tty, janetResult, wrote>>

\* Some descriptor of the process still refers to the write end of the
\* stdout (s = "out") or stderr (s = "err") pipe of request r.
WriteEndOpen(r, s) ==
    \/ (IF s = "out" THEN fd.out ELSE fd.err) = r
    \/ \E u \in VMs : (IF s = "out" THEN originalFd[u].out
                       ELSE originalFd[u].err) = r

\* Variant: a non-OK completion signal makes the handler goroutine return
\* from its loop after the error Response is posted.
ExecDrainErrorFatal(v) ==
    /\ ~panicked
    /\ wpc[v] = "restored"
    /\ ~WriteEndOpen(wreq[v], "out")
    /\ ~WriteEndOpen(wreq[v], "err")
    /\ Post(v, wreq[v],
            CapturedResponse(wreq[v], janetResult[v], pipebuf[wreq[v]].out,
                             pipebuf[wreq[v]].err))
         \/ /\ janetResult[v].ret # JANET_SIGNAL_OK
            /\ responseChan' = [responseChan EXCEPT ![wreq[v]] =
                  Append(@, CapturedResponse(wreq[v], janetResult[v],
                                             pipebuf[wreq[v]].out,
                                             pipebuf[wreq[v]].err))]
            /\ wpc' = [wpc EXCEPT ![v] = "exited"]
            /\ wreq' = [wreq EXCEPT ![v] = NoReq]
            /\ reqs' = reqs
            /\ inflight' = inflight \ {<<v, wreq[v]>>}
    /\ pipebuf' = [pipebuf EXCEPT ![wreq[v]] = NoText]
    /\ fds' = fds \ {Desc("rd", "out", wreq[v]), Desc("rd", "err", wreq[v])}
    /\ janetResult' = [janetResult EXCEPT ![v] = NoResult]
    /\ ret' = NoRet
    /\ UNCHANGED <<codec, sharedVM, nvm, interp, env, shutdownChan, wg, initDone,
                   sendq, callerVars, handles, withdrawn, abandoned, panicked,
                   fd, originalFd, tty, wrote>>

\* The two read loops, which end at end-of-file (no write end of the pipe
\* is open any more), C.close of the two read ends, then the Response is
\* posted.
ExecDrain(v) ==
    /\ ~panicked
    /\ wpc[v] = "restored"
    /\ ~WriteEndOpen(wreq[v], "out")
    /\ ~WriteEndOpen(wreq[v], "err")
    /\ Post(v, wreq[v],
            CapturedResponse(wreq[v], janetResult[v], pipebuf[wreq[v]].out,
                             pipebuf[wreq[v]].err))
    /\ pipebuf' = [pipebuf EXCEPT ![wreq[v]] = NoText]
    /\ fds' = fds \ {Desc("rd", "out", wreq[v]), Desc("rd", "err", wreq[v])}
    /\ janetResult' = [janetResult EXCEPT ![v] = NoResult]
    /\ ret' = NoRet
    /\ UNCHANGED <<codec, sharedVM, nvm, interp, env, shutdownChan, wg, initDone,
                   sendq, callerVars, handles, withdrawn, abandoned, panicked,
                   fd, originalFd, tty, wrote>>

\* The source texts the callers of EvalSpec submit.
EvalExecExprs == {ExprDefn, ExprCall, ExprPrint, ExprError}
EvalParseExprs == {ExprData, ExprPrint}

\* Callers that pass context.TODO() and wait for the Response, as the tests
\* do; the handler goroutines run handleExecRequest statement by statement.
EvalNext ==
    \/ \E g \in Callers : SharedVMExisting(g)
    \/ \E g \in Callers : SharedVMCreate(g)
    \/ \E g \in Callers : SharedVMStore(g)
    \/ \E g \in Callers : SharedVMReturn(g)
    \/ \E g \in Callers : SharedVMInitFailed(g)
    \/ \E g \in Callers, v \in VMs : CloseCall(g, v)
    \/ \E g \in Callers : CloseReturn(g)
    \/ \E g \in Callers, v \in VMs, code \in EvalExecExprs :
           Execute(g, v, code, "live")
    \/ \E g \in Callers, v \in VMs, code \in EvalParseExprs :
           ParseToValue(g, v, code, "live")
    \/ \E g \in Callers : AwaitResponse(g)
    \/ \E v \in VMs : WorkerInit(v)
    \/ \E v \in VMs : WorkerInitFailedExit(v)
    \/ \E v \in VMs : WorkerRecvExec(v)
    \/ \E v \in VMs : WorkerRecvParse(v)
    \/ \E v \in VMs : WorkerShutdown(v)
    \/ \E v \in VMs : ExecRedirect(v)
    \/ \E v \in VMs : ExecDostring(v)
    \/ \E v \in VMs : ExecRestore(v)
    \/ \E v \in VMs : ExecDrain(v)
    \/ \E v \in VMs : handleParseRequest(v)

EvalSpec == Init /\ [][EvalNext]_vars

\* ---------------------------------------------------------- Value Codec
\* The Janet values handed to the codec: sequences of up to MaxLen elements,
\* nested twice, and tables and structs of up to MaxSlots slots.
MaxLen == 2
MaxSlots == 2

SeqAtoms == {JNum(1), JKey("k")}
SeqsOver(S) == UNION {[1..n -> S] : n \in 0..MaxLen}
Seqs1 == {JTuple(s) : s \in SeqsOver(SeqAtoms)}
             \cup {JArray(s) : s \in SeqsOver(SeqAtoms)}
Seqs2 == {JTuple(s) : s \in SeqsOver(SeqAtoms \cup Seqs1)}
             \cup {JArray(s) : s \in SeqsOver(SeqAtoms \cup Seqs1)}

MapKeys == {JKey("a"), JStr(":a"), JSym("b")}
MapVals == {JNum(1), JStr("s"), JKey("v"),
            JTable(<<<<JKey("c"), JNum(3)>>, EmptySlot>>)}
SlotArrays ==
    {d \in UNION {[1..n -> {EmptySlot} \cup (MapKeys \X MapVals)] :
                     n \in 0..MaxSlots} :
        \A i, j \in 1..Len(d) :
            (i # j /\ d[i] # EmptySlot) => d[i][1] # d[j][1]}
Maps == {JTable(d) : d \in SlotArrays} \cup {JStruct(d) : d \in SlotArrays}

\* Sequences of strings, symbols and keywords, also nested once.
TextAtoms == {JStr("s"), JSym("y"), JKey("k")}
TextSeqs1 == {JTuple(s) : s \in SeqsOver(TextAtoms)}
                 \cup {JArray(s) : s \in SeqsOver(TextAtoms)}
TextSeqs == TextSeqs1 \cup {JTuple(<<x>>) : x \in TextSeqs1}

CodecValues == Seqs2 \cup Maps \cup TextSeqs

CodecInit ==
    /\ ProgramInit
    /\ codec \in {[value |-> v, text |-> "", go |-> GoNil, done |-> {}] :
                     v \in CodecValues}

\* janetValueToString(janetResult), as handleExecRequest calls it.
RenderValue ==
    /\ "text" \notin codec.done
    /\ codec' = [codec EXCEPT !.text = janetValueToString(codec.value),
                              !.done = @ \cup {"text"}]
    /\ UNCHANGED programVars

\* parseJanetValueToGo(janetResult), as handleParseRequest calls it.
ConvertValue ==
    /\ "go" \notin codec.done
    /\ codec' = [codec EXCEPT !.go = parseJanetValueToGo(codec.value),
                              !.done = @ \cup {"go"}]
    /\ UNCHANGED programVars

CodecNext == RenderValue \/ ConvertValue

CodecSpec == CodecInit /\ [][CodecNext]_vars

\* --------------------------------------------- a running, never-closed VM
\* The state after `vm, err := SharedVM()` has returned a running instance
\* to the callers (the first statement of every test).
ServeInit ==
    /\ sharedVM = 1
    /\ nvm = 1
    /\ wpc = [v \in VMs |-> IF v = 1 THEN "select" ELSE "none"]
    /\ interp = [v \in VMs |-> IF v = 1 THEN "live" ELSE "none"]
    /\ env = [v \in VMs |-> IF v = 1 THEN CoreEnv ELSE {}]
    /\ shutdownChan = [v \in VMs |-> FALSE]
    /\ wg = [v \in VMs |-> IF v = 1 THEN 1 ELSE 0]
    /\ initDone = [v \in VMs |-> IF v = 1 THEN "closed" ELSE "empty"]
    /\ wreq = [v \in VMs |-> NoReq]
    /\ reqs = <<>>
    /\ responseChan = <<>>
    /\ sendq = {}
    /\ gpc = [g \in Callers |-> "idle"]
    /\ gvm = [g \in Callers |-> NilVM]
    /\ greq = [g \in Callers |-> NoReq]
    /\ gctx = [g \in Callers |-> "live"]
    /\ handles = {1}
    /\ ret = NoRet
    /\ withdrawn = {}
    /\ abandoned = {}
    /\ inflight = {}
    /\ panicked = FALSE
    /\ CaptureInit
    /\ codec = NoCodec

\* The steps of the callers' Execute / ParseToValue calls and of the handler
\* goroutine's loop; Close is never called.
ServeNext ==
    \/ \E g \in Callers, v \in VMs, code \in ExecExprs,
           ctx \in {"live", "expired"} : Execute(g, v, code, ctx)
    \/ \E g \in Callers, v \in VMs, code \in ParseExprs,
           ctx \in {"live", "expired"} : ParseToValue(g, v, code, ctx)
    \/ \E g \in Callers : CtxDone(g)
    \/ \E g \in Callers : SubmitCancelled(g)
    \/ \E g \in Callers : AwaitCancelled(g)
    \/ \E g \in Callers : AwaitResponse(g)
    \/ \E v \in VMs : WorkerRecvExec(v)
    \/ \E v \in VMs : WorkerRecvParse(v)
    \/ \E v \in VMs : handleExecRequest(v)
    \/ \E v \in VMs : handleParseRequest(v)

\* A goroutine that can take a step takes it eventually: the Go scheduler
\* runs every runnable goroutine and a select with a ready case proceeds.
\* Callers are free never to call and a context is free never to fire.
ServeFairness ==
    /\ \A v \in VMs :
         /\ WF_vars(WorkerRecvExec(v))
         /\ WF_vars(WorkerRecvParse(v))
         /\ WF_vars(handleExecRequest(v))
         /\ WF_vars(handleParseRequest(v))
    /\ \A g \in Callers :
         /\ WF_vars(SubmitCancelled(g))
         /\ WF_vars(AwaitCancelled(g))
         /\ WF_vars(AwaitResponse(g))

ServeSpec == ServeInit /\ [][ServeNext]_vars /\ ServeFairness

\* ------------------------------------------- output larger than a pipe
\* The source texts the callers of CaptureSpec pass to Execute.
CaptureExprs == {ExprPrint, ExprBig}

\* One running VM, callers that wait for the Response, handleExecRequest
\* statement by statement.
CaptureNext ==
    \/ \E g \in Callers, v \in VMs, code \in CaptureExprs :
           Execute(g, v, code, "live")
    \/ \E g \in Callers : AwaitResponse(g)
    \/ \E v \in VMs : WorkerRecvExec(v)
    \/ \E v \in VMs : ExecRedirect(v)
    \/ \E v \in VMs : ExecDostring(v)
    \/ \E v \in VMs : ExecRestore(v)
    \/ \E v \in VMs : ExecDrain(v)

CaptureSpec == ServeInit /\ [][CaptureNext]_vars

\* ------------------------------------- an evaluation that never terminates
\* The source texts the callers of HangSpec pass to Execute and to
\* ParseToValue.
HangExecExprs == {ExprPrint, ExprLoop}
HangParseExprs == {ExprData, ExprLoop}

\* The steps of ServeNext, with callers that may submit an endless loop and
\* handleExecRequest taken statement by statement.
HangNext ==
    \/ \E g \in Callers, v \in VMs, code \in HangExecExprs,
           ctx \in {"live", "expired"} : Execute(g, v, code, ctx)
    \/ \E g \in Callers, v \in VMs, code \in HangParseExprs,
           ctx \in {"live", "expired"} : ParseToValue(g, v, code, ctx)
    \/ \E g \in Callers : CtxDone(g)
    \/ \E g \in Callers : SubmitCancelled(g)
    \/ \E g \in Callers : AwaitCancelled(g)
    \/ \E g \in Callers : AwaitResponse(g)
    \/ \E v \in VMs : WorkerRecvExec(v)
    \/ \E v \in VMs : WorkerRecvParse(v)
    \/ \E v \in VMs : ExecRedirect(v)
    \/ \E v \in VMs : ExecDostring(v)
    \/ \E v \in VMs : ExecRestore(v)
    \/ \E v \in VMs : ExecDrain(v)
    \/ \E v \in VMs : handleParseRequest(v)

HangSpec == ServeInit /\ [][HangNext]_vars

TypeOK ==
    /\ sharedVM \in VMs \cup {NilVM}
    /\ nvm \in 0..MaxVM
    /\ handles \subseteq 1..nvm
    /\ sendq \subseteq 1..Len(reqs)
    /\ withdrawn \subseteq 1..Len(reqs)

\* ------------------------------------------------------------------ claims

\* C1: within one VM the handler goroutine processes at most one request
\* (Execute or ParseToValue) at a time: a request it has received stays the
\* only one in flight until its Response is posted, whatever the number of
\* callers blocked in a send.
OneRequestAtATime ==
    \A v \in VMs :
        /\ Cardinality({p \in inflight : p[1] = v}) <= 1
        /\ \A p \in inflight :
             p[1] = v => wreq[v] = p[2] /\ wpc[v] \in {"exec", "parse"}

\* C1 witness: a handler is busy with one request while another caller is
\* blocked sending a request to the same VM.
BusyWithSenderWaiting ==
    \E v \in VMs :
        /\ wpc[v] \in {"exec", "parse"}
        /\ <<v, wreq[v]>> \in inflight
        /\ \E r \in sendq : reqs[r].vm = v

\* C2 (as claimed): at every moment at most one handler goroutine with an
\* initialized interpreter is live in the process.
AtMostOneWorker ==
    Cardinality({v \in VMs : interp[v] = "live"}) <= 1

\* C3 (as claimed): an Execute called with a context that is already done
\* is never received by the handler goroutine and returns the context's
\* error.
ExpiredExecuteNeverDequeued ==
    /\ \A g \in Callers :
         (gctx[g] = "expired" /\ OpOf(greq[g]) = "Execute") => gpc[g] = "send"
    /\ (ret.op = "Execute" /\ ret.ctx = "expired") => ret.err = CtxErr

\* C4: a request whose call returned the context's error from the submit
\* phase is never received, never handled and never answered.
WithdrawnNeverEvaluated ==
    \A r \in withdrawn :
        /\ r \notin sendq
        /\ \A v \in VMs : wreq[v] # r /\ <<v, r>> \notin inflight
        /\ responseChan[r] = <<>>

\* C4 witness: the first request was withdrawn in the submit phase and a
\* handler is processing the second one.
WithdrawnThenOtherHandled ==
    /\ 1 \in withdrawn
    /\ \E v \in VMs : wreq[v] = 2 /\ wpc[v] \in {"exec", "parse"}

\* C5: an Execute that returns because its context is done returns exactly
\* the context's error and empty evaluated, stdout and stderr.
CtxReturnIsBare ==
    (ret.op = "Execute" /\ ret.how \in {"submit-ctx", "await-ctx"}) =>
        /\ ret.err = CtxErr
        /\ ret.evaluated = ""
        /\ ret.stdout = ""
        /\ ret.stderr = ""

\* C5 witness: Execute returned on ctx.Done() although the handler had
\* already posted a Response with captured output for that request.
CtxReturnWithOutputCaptured ==
    /\ ret.op = "Execute"
    /\ ret.how = "await-ctx"
    /\ responseChan[ret.req] # <<>>
    /\ Head(responseChan[ret.req]).stdout # ""

\* The handler a request is in can always finish (posting the Response never
\* blocks, whether or not the caller still listens), the goroutine is not at
\* its select with an abandoned request in hand, and a Response received is
\* the one of the call's own request.
HandlerNeverBlocks ==
    /\ \A v \in VMs :
         (~panicked /\ wpc[v] = "exec") => ENABLED handleExecRequest(v)
    /\ \A v \in VMs :
         (~panicked /\ wpc[v] = "parse") => ENABLED handleParseRequest(v)
    /\ \A v \in VMs : wpc[v] = "select" => wreq[v] \notin abandoned
    /\ ret.how = "response" =>
         /\ ret.from = ret.req
         /\ ret.req \notin abandoned
         /\ ret.err # CtxErr

CloseReturnsAfterShutdown ==
    (ret.op = "Close" /\ ret.how = "shutdown") =>
        /\ wpc[ret.vm] = "exited"
        /\ interp[ret.vm] = "deinit"
        /\ wreq[ret.vm] = NoReq
        /\ \A p \in inflight : p[1] # ret.vm
        /\ sharedVM = NilVM

\* C7 witness: Close has returned for an instance that had evaluated a
\* definition while it was running.
ClosedAfterServing ==
    /\ ret.op = "Close"
    /\ ret.how = "shutdown"
    /\ env[ret.vm] # CoreEnv

\* The instance of v has been closed: a Close on it has returned.
Closed(v) ==
    /\ wpc[v] = "exited"
    /\ shutdownChan[v]
    /\ \A g \in Callers : ~(gpc[g] = "close_wait" /\ gvm[g] = v)

\* C8 (as claimed): Close on a VM whose instance has already been closed
\* is a no-op: no panic, no channel closed, no handler stopped, _sharedVM
\* unchanged.
CloseOfClosedIsNoop ==
    [][\A g \in Callers, v \in VMs :
          (Closed(v) /\ CloseCall(g, v)) =>
              /\ panicked' = panicked
              /\ shutdownChan' = shutdownChan
              /\ sharedVM' = sharedVM
              /\ wpc' = wpc
              /\ interp' = interp]_vars

Lifecycle ==
    [][/\ \A v \in VMs :
            wpc[v] = "exited" =>
                /\ wpc'[v] = "exited"
                /\ interp'[v] = "deinit"
                /\ wreq'[v] = NoReq
                /\ \A p \in inflight' : p[1] # v
       /\ \A g \in Callers :
            (gpc[g] = "idle" /\ sharedVM = NilVM /\ gpc'[g] = "svm_wait") =>
                /\ wpc[gvm'[g]] = "none"
                /\ wpc'[gvm'[g]] = "init"
                /\ gvm'[g] \notin handles
                /\ ~shutdownChan'[gvm'[g]]
                /\ initDone'[gvm'[g]] = "empty"
                /\ \A r \in sendq' : reqs'[r].vm # gvm'[g]
       /\ \A g \in Callers :
            (gpc[g] = "idle" /\ sharedVM = NilVM) =>
                ~(ret'.caller = g /\ ret'.op = "SharedVM")
       /\ \A v \in VMs :
            (wpc[v] = "init" /\ wpc'[v] = "select") => env'[v] = CoreEnv]_vars

\* C10 witness: one instance was closed after it had evaluated a
\* definition, and a request has been answered by a second instance whose
\* environment holds no such definition.
FreshInstanceAfterClose ==
    \E v1 \in VMs, v2 \in VMs :
        /\ v1 # v2
        /\ Closed(v1)
        /\ env[v1] # CoreEnv
        /\ wpc[v2] = "select"
        /\ env[v2] = CoreEnv
        /\ ret.how = "response"
        /\ ret.vm = v2

\* The positions of a handler goroutine inside its serving loop.
InLoop(v) ==
    wpc[v] \in {"select", "exec", "parse", "redirected", "evaluated",
                "restored"}

\* C11: a request whose evaluation ends with a non-OK completion signal does
\* not end the handler goroutine: the step that posts a Response, the error
\* Response included, leaves the goroutine at its select with its
\* interpreter live, and the goroutine leaves its loop only from the select
\* with shutdownChan closed.
ErrorKeepsWorkerServing ==
    [][\A v \in VMs :
         /\ (wreq[v] # NoReq /\ wreq'[v] = NoReq) =>
               (wpc'[v] = "select" /\ interp'[v] = "live")
         /\ (InLoop(v) /\ ~InLoop(v)') =>
               (wpc[v] = "select" /\ shutdownChan[v] /\ wpc'[v] = "exited")
      ]_vars

\* C11 witness: request 1 was answered with the interpreter's error, and a
\* later request of the same VM has been evaluated and returned without
\* error.
ServedAfterError ==
    /\ Len(reqs) = 2
    /\ responseChan[1] # <<>>
    /\ Head(responseChan[1]).err = "intentional"
    /\ ret.how = "response"
    /\ ret.req = 2
    /\ ret.vm = reqs[1].vm
    /\ ret.err = NoErr
    /\ wpc[ret.vm] = "select"

\* C12: when the evaluation of an Execute request signalled failure, the
\* Response posted for it has the interpreter's rendering of the error value
\* as its (non-nil) error, an empty evaluated text, and as stdout and stderr
\* exactly the bytes drained from the request's two pipes; the call that
\* receives it returns these fields.
FailureResponseCarriesCapture ==
    /\ [][\A v \in VMs :
           (/\ wpc[v] = "restored"
            /\ wreq'[v] = NoReq
            /\ janetResult[v].ret # JANET_SIGNAL_OK) =>
               LET res == Head(responseChan'[wreq[v]]) IN
                 /\ res.err = janet_to_string_b(janetResult[v].result)
                 /\ res.err # NoErr
                 /\ res.evaluated = ""
                 /\ res.stdout = pipebuf[wreq[v]].out
                 /\ res.stderr = pipebuf[wreq[v]].err
        ]_vars
    /\ [][\A g \in Callers :
           (gpc[g] = "await" /\ gpc'[g] = "idle" /\ ret'.how = "response") =>
               LET res == Head(responseChan[greq[g]]) IN
                 /\ ret'.err = res.err
                 /\ ret'.evaluated = res.evaluated
                 /\ ret'.stdout = res.stdout
                 /\ ret'.stderr = res.stderr
        ]_vars

\* C12 witness: Execute has returned the error of (error "intentional")
\* together with what the source printed before it failed.
FailureReturnedWithOutput ==
    /\ ret.op = "Execute"
    /\ ret.how = "response"
    /\ ret.err = "intentional"
    /\ ret.evaluated = ""
    /\ ret.stdout = "partial\n"
    /\ ret.stderr = "error: intentional\n  in thunk pc=1\n"

\* A handler goroutine is between redirectStdout and restoreStderr, that
\* is, inside the protected interpreter call of an Execute request.
InProtectedCall(v) == wpc[v] \in {"redirected", "evaluated"}

\* C13 (as claimed): whenever no handler goroutine is inside the protected
\* interpreter call of an Execute request, descriptors 1 and 2 of the
\* process refer to their original destinations.
StreamsRestoredOutsideCall ==
    (\A v \in VMs : ~InProtectedCall(v)) =>
        fd = [out |-> OrigDest, err |-> OrigDest]

\* C14 (as claimed): the stdout and stderr of the Response of an Execute
\* request are exactly the bytes the evaluation of that request wrote to
\* each stream: nothing of another request in them, nothing missing.
ResponseStreamsAreOwnOutput ==
    \A r \in 1..Len(reqs) :
        (reqs[r].kind = "exec" /\ responseChan[r] # <<>>) =>
            /\ Head(responseChan[r]).stdout = wrote[r].out
            /\ Head(responseChan[r]).stderr = wrote[r].err

\* C15 (as claimed): every interpreter call, of an Execute and of a
\* ParseToValue request alike, runs with descriptors 1 and 2 redirected into
\* pipes, so nothing the evaluated source writes reaches the original stdout
\* or stderr.
NothingReachesRealStreams ==
    tty = NoText

\* C16: the step by which a caller gives up its call, in the submit or in
\* the await phase, changes nothing but that call: the handler goroutines'
\* state, the interpreter environments, the captured streams, the reply
\* channels, and the request, queue entry and call of every other caller
\* stay as they are; and a Response a caller receives is always the one of
\* its own request.
CancelAffectsOnlyItsCall ==
    /\ [][\A g \in Callers :
           (/\ gpc[g] \in {"send", "await"}
            /\ ret'.caller = g
            /\ ret'.how \in {"submit-ctx", "await-ctx"}) =>
               /\ wpc' = wpc /\ wreq' = wreq /\ interp' = interp
               /\ env' = env /\ wg' = wg /\ shutdownChan' = shutdownChan
               /\ sharedVM' = sharedVM
               /\ fd' = fd /\ originalFd' = originalFd /\ pipebuf' = pipebuf
               /\ responseChan' = responseChan
               /\ Len(reqs') = Len(reqs)
               /\ \A r \in 1..Len(reqs) :
                    r # greq[g] =>
                        /\ reqs'[r] = reqs[r]
                        /\ (r \in sendq') = (r \in sendq)
               /\ \A h \in Callers \ {g} :
                    /\ gpc'[h] = gpc[h] /\ greq'[h] = greq[h]
                    /\ gvm'[h] = gvm[h] /\ gctx'[h] = gctx[h]
        ]_vars
    /\ [](ret.how = "response" => ret.from = ret.req)

\* C16 witness: a caller has just given up its call while another caller's
\* call on the same VM is in progress.
CancelledBesideOtherCall ==
    /\ ret.how \in {"submit-ctx", "await-ctx"}
    /\ \E h \in Callers \ {ret.caller} :
         /\ gpc[h] \in {"send", "await"}
         /\ gvm[h] = ret.vm

\* C17: all requests of one handler goroutine are evaluated against the one
\* environment built at its start: the environment starts as the core
\* environment, keeps every definition while the goroutine is in its loop,
\* holds add once (defn add ...) has been evaluated, and (add 1 2)
\* evaluated with add defined is answered with 3 and no error.
DefinitionsPersist ==
    [][\A v \in VMs :
         /\ (wpc[v] = "init" /\ wpc'[v] = "select") => env'[v] = CoreEnv
         /\ (InLoop(v) /\ InLoop(v)') => env[v] \subseteq env'[v]
         /\ (/\ wpc[v] = "redirected" /\ wpc'[v] = "evaluated"
             /\ reqs[wreq[v]].expression = ExprDefn) => "add" \in env'[v]
         /\ (/\ wpc[v] = "restored" /\ wreq'[v] = NoReq
             /\ reqs[wreq[v]].expression = ExprCall) =>
               IF "add" \in env[v]
               THEN /\ Head(responseChan'[wreq[v]]).evaluated = "3"
                    /\ Head(responseChan'[wreq[v]]).err = NoErr
               ELSE Head(responseChan'[wreq[v]]).err # NoErr
      ]_vars

\* C17 witness: the second request, (add 1 2), has returned 3: the function
\* was defined by the first request of the same VM.
CallAfterDefnReturned ==
    /\ Len(reqs) = 2
    /\ ret.op = "Execute"
    /\ ret.how = "response"
    /\ ret.req = 2
    /\ ret.evaluated = "3"
    /\ ret.err = NoErr
    /\ "add" \in env[ret.vm]

\* C18: when janet_core_env fails, the handler goroutine never enters its
\* loop (it receives no request and only exits), its VM is never stored in
\* _sharedVM nor handed out, and the SharedVM call returns nil and the error
\* only once that goroutine has exited and its interpreter is deinitialized,
\* leaving _sharedVM as it was, so that a later call finding it nil
\* initializes anew.
InitFailureLeavesNoInstance ==
    /\ [](\A v \in VMs :
            initDone[v] = "err" =>
                /\ wpc[v] \in {"failed", "exited"}
                /\ wreq[v] = NoReq
                /\ sharedVM # v
                /\ v \notin handles)
    /\ [][\A g \in Callers :
           (gpc[g] = "svm_wait" /\ ret'.caller = g /\ ret'.how = "initerr") =>
               /\ wpc[gvm[g]] = "exited"
               /\ interp[gvm[g]] = "deinit"
               /\ ret'.vm = NilVM
               /\ ret'.err = ErrEnv
               /\ sharedVM' = sharedVM
        ]_vars
    /\ [][\A v \in VMs : wpc[v] = "failed" => wpc'[v] \in {"failed", "exited"}
        ]_vars

\* C18 witness: the only SharedVM call made so far has just returned nil and
\* the error, its handler goroutine has exited, _sharedVM is nil, and a
\* SharedVM call made now starts a new initialization.
FreshInitAfterFailure ==
    /\ nvm = 1
    /\ initDone[1] = "err"
    /\ wpc[1] = "exited"
    /\ ret.op = "SharedVM"
    /\ ret.how = "initerr"
    /\ ret.vm = NilVM
    /\ sharedVM = NilVM
    /\ \A g \in Callers : gpc[g] = "idle"
    /\ \A g \in Callers : ENABLED SharedVMCreate(g)

\* The rendering the rule for ordered sequences gives: tuple and array
\* alike are "(" elements joined by single spaces ")", recursively.
RECURSIVE SeqRendering(_)
RECURSIVE SeqJoin(_, _)
SeqJoin(items, i) ==
    IF i > Len(items) THEN ""
    ELSE SeqRendering(items[i]) \o (IF i < Len(items) THEN " " ELSE "")
           \o SeqJoin(items, i + 1)

SeqRendering(v) ==
    IF janet_type(v) \in {"tuple", "array"}
    THEN "(" \o SeqJoin(v[2], 1) \o ")"
    ELSE janetValueToString(v)

\* C19 (as claimed): the text rendering of an ordered sequence, tuple or
\* array, is "(" + the renderings of its elements joined by single spaces
\* + ")", recursively.
SequencesRenderParenthesized ==
    ("text" \in codec.done /\ janet_type(codec.value) \in {"tuple", "array"})
        => codec.text = SeqRendering(codec.value)

\* The slots of a table or struct that hold an entry (a non-nil key).
Entries(v) == {i \in 1..Len(v[2].data) : janet_type(v[2].data[i][1]) # "nil"}

\* C20 (as claimed): the structured conversion of a table or struct is a
\* mapping with exactly one entry for each entry of the container that has
\* a non-nil key, keys and values converted recursively: no entry is lost
\* and no empty slot surfaces.
MapsKeepEveryEntry ==
    ("go" \in codec.done /\ janet_type(codec.value) \in {"table", "struct"})
        => /\ codec.go[1] = "map"
           /\ Cardinality(DOMAIN codec.go[2])
                 = Cardinality(Entries(codec.value))
           /\ \A i \in Entries(codec.value) :
                LET kv == codec.value[2].data[i] IN
                  /\ parseJanetValueToGo(kv[1]) \in DOMAIN codec.go[2]
                  /\ codec.go[2][parseJanetValueToGo(kv[1])]
                       = parseJanetValueToGo(kv[2])

\* The table or struct v has entries and all their keys are keywords.
KeywordKeyed(v) ==
    /\ janet_type(v) \in {"table", "struct"}
    /\ Entries(v) # {}
    /\ \A i \in Entries(v) : janet_type(v[2].data[i][1]) = "keyword"

\* The names of the keys of v as native strings, without the colon.
StrippedKeys(v) == {<<"string", v[2].data[i][1][2]>> : i \in Entries(v)}

\* C21 (as claimed): the structured conversion of an associative container
\* whose keys are keywords is a native mapping whose keys are the keyword
\* names without the leading colon ({:a 1 :b 2} gives the keys "a" and
\* "b"), also for an associative container nested as a value.
KeywordKeysLoseColon ==
    ("go" \in codec.done /\ KeywordKeyed(codec.value)) =>
        /\ codec.go[1] = "map"
        /\ DOMAIN codec.go[2] = StrippedKeys(codec.value)
        /\ \A i \in Entries(codec.value) :
             LET k == <<"string", codec.value[2].data[i][1][2]>>
                 val == codec.value[2].data[i][2]
             IN KeywordKeyed(val) =>
                  /\ codec.go[2][k][1] = "map"
                  /\ DOMAIN codec.go[2][k][2] = StrippedKeys(val)

\* What structured conversion makes of the texts in Janet value v, found in
\* native value g: a string or symbol is the native string of its raw
\* text, a keyword the native string of ":" and its text; the elements of
\* a sequence are looked at in place, the keys and values of a mapping
\* entry by entry.
RECURSIVE TextsConverted(_, _)
TextsConverted(v, g) ==
    CASE janet_type(v) \in {"string", "symbol"} -> g = <<"string", v[2]>>
      [] janet_type(v) = "keyword" -> g = <<"string", ":" \o v[2]>>
      [] janet_type(v) \in {"tuple", "array"} ->
            /\ g[1] = "slice"
            /\ Len(g[2]) = Len(v[2])
            /\ \A i \in 1..Len(v[2]) : TextsConverted(v[2][i], g[2][i])
      [] janet_type(v) \in {"table", "struct"} ->
            /\ g[1] = "map"
            /\ \A k \in DOMAIN g[2] :
                 \E i \in Entries(v) :
                    /\ TextsConverted(v[2].data[i][1], k)
                    /\ TextsConverted(v[2].data[i][2], g[2][k])
      [] OTHER -> TRUE

OneResponsePerRequest ==
    /\ [][/\ \A r \in sendq' \ sendq : r = Len(reqs) + 1
          /\ \A v \in VMs :
               (wreq'[v] # NoReq /\ wreq'[v] # wreq[v]) =>
                   /\ wreq[v] = NoReq
                   /\ wreq'[v] \in sendq /\ wreq'[v] \notin sendq'
                   /\ reqs[wreq'[v]].vm = v
                   /\ responseChan[wreq'[v]] = <<>>
          /\ \A v \in VMs :
               (wreq[v] # NoReq /\ wreq'[v] # wreq[v]) =>
                   /\ wreq'[v] = NoReq
                   /\ responseChan[wreq[v]] = <<>>
                   /\ Len(responseChan'[wreq[v]]) = 1
          /\ \A r \in 1..Len(reqs) :
               responseChan'[r] # responseChan[r] =>
                   \/ /\ responseChan[r] = <<>>
                      /\ Len(responseChan'[r]) = 1
                      /\ Head(responseChan'[r]).req = r
                      /\ \E v \in VMs : wreq[v] = r /\ wreq'[v] = NoReq
                      /\ \A q \in 1..Len(reqs) \ {r} :
                           responseChan'[q] = responseChan[q]
                   \/ /\ responseChan'[r] = <<>>
                      /\ \E g \in Callers :
                           /\ greq[g] = r
                           /\ ret'.caller = g
                           /\ ret'.how = "response"
                           /\ ret'.from = r
         ]_vars
    /\ [](ret.how = "response" => ret.from = ret.req /\ ret.req # NoReq)

\* C23 witness: the Response of request 1 reports the failure to create the
\* stderr pipe, and the call of request 2, whose evaluation raised an
\* error, has returned the Response of request 2.
AnsweredOnFailurePaths ==
    /\ Len(reqs) = 2
    /\ responseChan[1] # <<>>
    /\ Head(responseChan[1]).req = 1
    /\ Head(responseChan[1]).err = ErrStderrPipe
    /\ ret.how = "response"
    /\ ret.req = 2
    /\ ret.from = 2
    /\ ret.err = "intentional"

Hung(v) ==
    /\ wpc[v] \in {"redirected", "parse"}
    /\ wreq[v] # NoReq
    /\ ~Terminates(reqs[wreq[v]].expression)

\* C25: while the handler goroutine is executing an evaluation that never
\* terminates it stays there, whether or not the request's caller has given
\* up: it receives no other request, no other source text is run against
\* its environment, and a call on that VM whose request has not been
\* received can leave its submit phase only by returning its context's
\* error.
NonTerminatingOccupiesWorker ==
    [][\A v \in VMs :
         Hung(v) =>
             /\ Hung(v)'
             /\ wreq'[v] = wreq[v]
             /\ env'[v] = env[v]
             /\ {p \in inflight' : p[1] = v} = {<<v, wreq[v]>>}
             /\ \A g \in Callers :
                  (gpc[g] = "send" /\ gvm[g] = v) =>
                      \/ gpc'[g] = "send" /\ greq'[g] = greq[g]
                      \/ /\ gpc'[g] = "idle"
                         /\ ret'.caller = g
                         /\ ret'.how = "submit-ctx"
                         /\ ret'.err = CtxErr
                         /\ ret'.evaluated = ""
                         /\ ret'.value = GoNil
                         /\ responseChan'[greq[g]] = <<>>
      ]_vars

\* C25 witness: the caller of the endless loop has given up, the handler
\* goroutine is still inside that evaluation, and a call made on the same
\* VM has returned its context's error, its deadline having fired while it
\* was blocked sending.
LaterCallTimedOutBehindLoop ==
    /\ Hung(1)
    /\ wreq[1] \in abandoned
    /\ ret.how = "submit-ctx"
    /\ ret.vm = 1
    /\ ret.ctx = "fired"
    /\ ret.req # wreq[1]
    /\ ret.err = CtxErr

\* C26 (as claimed): once Close has closed shutdownChan, the handler
\* goroutine begins no further request: when it is at its select it only
\* leaves the loop, also with callers blocked sending on execChan or
\* parseChan.
ShutdownStopsReceiving ==
    [][\A v \in VMs :
         (shutdownChan[v] /\ wpc[v] = "select") =>
             /\ wpc'[v] \in {"select", "exited"}
             /\ wreq'[v] = NoReq
      ]_vars

\* The error texts of the two pipe-creation failures.
PipeErrors == {ErrStdoutPipe, ErrStderrPipe}

\* C27: when C.pipe fails for the stdout or the stderr pipe, the handler
\* returns at once: the interpreter is not called for the request (no
\* result, no environment change, nothing written), the Response has the
\* pipe error and empty evaluated, stdout and stderr, descriptors 1 and 2
\* and the saved duplicates are left as they are, and the goroutine is at
\* its select with its interpreter live, ready for later requests.
PipeFailureAbortsRequest ==
    /\ [][\A v \in VMs :
           (wpc[v] = "exec" /\ wpc'[v] \notin {"exec", "redirected"}) =>
               /\ wpc'[v] = "select"
               /\ wreq'[v] = NoReq
               /\ interp'[v] = "live"
               /\ Len(responseChan'[wreq[v]]) = 1
               /\ Head(responseChan'[wreq[v]]).err \in PipeErrors
               /\ Head(responseChan'[wreq[v]]).evaluated = ""
               /\ Head(responseChan'[wreq[v]]).stdout = ""
               /\ Head(responseChan'[wreq[v]]).stderr = ""
               /\ env' = env /\ janetResult' = janetResult
               /\ wrote' = wrote /\ pipebuf' = pipebuf /\ tty' = tty
               /\ fd' = fd /\ originalFd' = originalFd
        ]_vars
    /\ [](\A r \in 1..Len(reqs) :
            (responseChan[r] # <<>> /\ Head(responseChan[r]).err \in PipeErrors)
                => wrote[r] = NoText)

\* C27 witness: request 1 was answered with the stdout pipe error without
\* having been evaluated, and request 2, sent to the same VM, has been
\* evaluated and has returned its result and output.
ServedAfterPipeFailure ==
    /\ Len(reqs) = 2
    /\ responseChan[1] # <<>>
    /\ Head(responseChan[1]).err = ErrStdoutPipe
    /\ wrote[1] = NoText
    /\ reqs[1].vm = ret.vm
    /\ ret.how = "response"
    /\ ret.req = 2
    /\ ret.err = NoErr
    /\ ret.evaluated = "hello"
    /\ ret.stdout = "hello to stdout\n"
    /\ wpc[ret.vm] = "select"

\* The handler goroutine of v is inside handleExecRequest between the
\* creation of the pipes and the closing of their read ends.
Capturing(v) == wpc[v] \in {"redirected", "evaluated", "restored"}

\* C28: handling an Execute request leaks no descriptor.  Every descriptor
\* open besides 0, 1 and 2 was opened for a request whose handler has not
\* returned yet, so once a handler has returned the descriptors it opened
\* are closed again; the pipes' own write descriptors are closed as soon as
\* the streams are redirected; and a return on a pipe-creation failure, of
\* the first pipe or of the second, leaves the set of open descriptors as
\* it was.
NoDescriptorLeak ==
    /\ [](\A d \in fds :
            /\ d[1] # "wr"
            /\ \E v \in VMs : wreq[v] = d[3] /\ Capturing(v))
    /\ [][\A v \in VMs :
           (wpc[v] = "exec" /\ wpc'[v] = "select") => fds' = fds
        ]_vars
    /\ [][\A v \in VMs :
           (wreq[v] # NoReq /\ wreq'[v] = NoReq) =>
               /\ \A d \in fds' : d[3] # wreq[v]
               /\ fds' \subseteq fds
        ]_vars

\* C28 witness: request 1 was answered with the stderr pipe error (its
\* stdout pipe had been created), request 2 went through the whole capture
\* and has returned its output, and no descriptor besides 0, 1 and 2 is
\* open.
DescriptorsClosedOnBothPaths ==
    /\ Len(reqs) = 2
    /\ responseChan[1] # <<>>
    /\ Head(responseChan[1]).err = ErrStderrPipe
    /\ ret.how = "response"
    /\ ret.req = 2
    /\ ret.stderr = "hello to stderr\n"
    /\ \A v \in VMs : ~Capturing(v) /\ wreq[v] = NoReq
    /\ fds = {}

\* C29 (as claimed): when the handler goroutine starts to drain the pipes of
\* its request, no descriptor of the process refers to the write end of
\* either pipe any more, so both read loops reach end-of-file.
DrainFindsWriteEndsClosed ==
    \A v \in VMs :
        wpc[v] = "restored" =>
            /\ ~WriteEndOpen(wreq[v], "out")
            /\ ~WriteEndOpen(wreq[v], "err")

\* C30 (as claimed): the interpreter call of a terminating evaluation never
\* blocks on a full capture pipe, however many bytes the evaluation writes
\* to stdout or stderr, so the handler gets to post the Response.
EvaluationNeverBlocksOnPipe ==
    \A v \in VMs :
        (wpc[v] = "redirected" /\ Terminates(reqs[wreq[v]].expression))
            => ENABLED ExecDostring(v)

\* Close has returned for v: shutdownChan is closed and the caller that
\* closed it is past vm.wg.Wait().
CloseReturned(v) ==
    /\ shutdownChan[v]
    /\ \A g \in Callers : ~(gpc[g] = "close_wait" /\ gvm[g] = v)

\* The requests that the handler goroutine of v has received and not yet
\* answered.
ReceivedBy(v) == {r \in 1..MaxReq : <<v, r>> \in inflight}

\* C31: after Close has returned for a VM, an Execute or ParseToValue call
\* on it causes no evaluation and does not panic: the handler goroutine
\* stays exited and receives nothing, the definitions stay as they were,
\* starting the call and every later step of it leave the panic flag alone,
\* and the call stays blocked in its first select until it returns the bare
\* error of its context, which it can do only once that context is done.
ClosedHandleIsInert ==
    /\ [](\A v \in VMs : CloseReturned(v) => wpc[v] = "exited" /\ wreq[v] = NoReq)
    /\ [][\A v \in VMs : CloseReturned(v) =>
            /\ wpc'[v] = "exited"
            /\ wreq'[v] = NoReq
            /\ env'[v] = env[v]
            /\ ReceivedBy(v)' = ReceivedBy(v)
            /\ \A g \in Callers :
                  /\ (gpc[g] = "idle" /\ gpc'[g] # "idle" /\ gvm'[g] = v) =>
                        /\ gpc'[g] \in {"send", "close_wait"}
                        /\ gpc'[g] = "send" => panicked' = panicked
                  /\ (gpc[g] = "send" /\ gvm[g] = v) =>
                        \/ gpc'[g] = "send" /\ greq'[g] = greq[g]
                        \/ /\ gpc'[g] = "idle"
                           /\ gctx[g] # "live"
                           /\ ret' = CtxReturned(g, "submit-ctx")
                           /\ panicked' = panicked
       ]_vars

\* C31 witness: the VM has been closed by one of the two callers; one call
\* on it has returned the error of its context, which fired while the call
\* was blocked in its first select, the other call is still blocked there
\* with a live context, and the handler is handling no request.
ClosedHandleCallTimedOut ==
    /\ ret.how = "submit-ctx"
    /\ ret.ctx = "fired"
    /\ ret.err = CtxErr
    /\ CloseReturned(ret.vm)
    /\ ReceivedBy(ret.vm) = {}
    /\ \E g \in Callers :
          /\ g # ret.caller
          /\ gpc[g] = "send"
          /\ gvm[g] = ret.vm
          /\ gctx[g] = "live"

====
